---- MODULE Spec2Model ----
(***************************************************************************)
(* Model of src/src/preview.cpp: the preview window of the path tracer.    *)
(* One sequential process runs init(), the frame loop of mainLoop(), the   *)
(* window teardown and then the atexit hook cleanupCuda().  pc is the      *)
(* position of that process; every library call the file makes is one      *)
(* step.  External collaborators (runCuda, the windowing system, GLEW) are *)
(* nondeterministic in exactly the outcomes the file reacts to.            *)
(***************************************************************************)
EXTENDS Naturals, Sequences, FiniteSets

VARIABLES
    pc,                 \* position of the single thread
    initResult,         \* "none", "true", "false" (init returned), "exit" (init called exit)
    glfwState,          \* "uninit", "init", "failed", "terminated"
    window,             \* GLFWwindow *window: "null", "open", "destroyed"
    closeFlag,          \* the window's should-close flag
    ctxCurrent,         \* an OpenGL context is current on the thread
    glew,               \* "unloaded", "ok", "failed"
    pbo,                \* GLuint pbo (0 = no buffer)
    displayImage,       \* GLuint displayImage (0 = no texture)
    passthroughProgram, \* the value initShader returned inside init (0 = none)
    indexBuffer,        \* vertexBufferObjID[2] of initVAO (0 = none)
    bindings,           \* the GL binding points this file touches
    buffers,            \* live GL buffer names
    textures,           \* live GL texture names
    programs,           \* live GL program names
    cudaRegistered,     \* buffers registered with CUDA for interop
    atexitHooks,        \* functions registered with atexit, in order
    hookRan,            \* cleanupCuda has been entered
    setupRan,           \* which of init's five setup steps have run
    initLog,            \* library calls init has made, in order
    iteration,          \* extern int iteration
    title,              \* last string passed to glfwSetWindowTitle
    frameLog,           \* calls made in the current (or just finished) frame
    mainCalls           \* teardown calls mainLoop made after the loop

vars == <<pc, initResult, glfwState, window, closeFlag, ctxCurrent, glew, pbo,
          displayImage, passthroughProgram, indexBuffer, bindings, buffers,
          textures, programs, cudaRegistered, atexitHooks, hookRan, setupRan,
          initLog, iteration, title, frameLog, mainCalls>>

\* Largest value the external iteration counter takes in the model.
MaxIter == 11

----------------------------------------------------------------------------
(* Helpers *)

\* glGen*: the smallest positive name not in use.
GenName(used) == CHOOSE n \in 1..(Cardinality(used) + 1) :
                    n \notin used /\ \A m \in 1..(n - 1) : m \in used

Digit(d) == <<"0", "1", "2", "3", "4", "5", "6", "7", "8", "9">>[d + 1]

RECURSIVE convertIntToString(_)
\* utilityCore::convertIntToString: decimal digits, most significant first.
convertIntToString(n) ==
    IF n < 10 THEN <<Digit(n)>>
    ELSE convertIntToString(n \div 10) \o <<Digit(n % 10)>>

\* The title mainLoop builds from a counter value.
Title(n) == <<"CIS565 Path Tracer | ">> \o convertIntToString(n) \o <<" Iterations">>

\* The five setup functions init calls after glewInit.
SetupSteps == {"initVAO", "initTextures", "initCuda", "initPBO", "initShader"}

\* Positions inside the body of the while loop of mainLoop.
LoopPcs == {"glfwWindowShouldClose", "glfwPollEvents", "runCuda",
            "glfwSetWindowTitle", "glBindBuffer", "glBindTexture",
            "glTexSubImage2D", "glClear", "glDrawElements", "glfwSwapBuffers"}

\* Positions at which cleanupCuda issues CUDA / OpenGL calls.
HookCallPcs == {"deletePBO", "deleteTexture"}

\* The call at position p has undefined behaviour in the current state:
\* a GLFW call on a null window, a GL call without a current context or
\* through an unloaded GLEW entry point, or a NULL data pointer that is not
\* an offset into a bound buffer.
UBAt(p) ==
    CASE p \in {"glfwWindowShouldClose", "glfwSetWindowTitle", "glfwSwapBuffers"}
            -> window # "open"
      [] p = "glBindBuffer"    -> ~ctxCurrent \/ glew # "ok"
      [] p \in {"glBindTexture", "glClear"} -> ~ctxCurrent
      [] p = "glTexSubImage2D" -> ~ctxCurrent \/ bindings.pixelUnpackBuffer = 0
      [] p = "glDrawElements"  -> ~ctxCurrent \/ bindings.elementArrayBuffer = 0
      [] p \in HookCallPcs     -> ~ctxCurrent
      [] OTHER                 -> FALSE

----------------------------------------------------------------------------
Init ==
    /\ pc = "glfwInit"
    /\ initResult = "none"
    /\ glfwState = "uninit"
    /\ window = "null"
    /\ closeFlag = FALSE
    /\ ctxCurrent = FALSE
    /\ glew = "unloaded"
    /\ pbo = 0
    /\ displayImage = 0
    /\ passthroughProgram = 0
    /\ indexBuffer = 0
    /\ bindings = [program |-> 0, activeUnit |-> 0,
                   texture2D |-> [u \in 0..1 |-> 0],
                   arrayBuffer |-> 0, elementArrayBuffer |-> 0,
                   pixelUnpackBuffer |-> 0]
    /\ buffers = {}
    /\ textures = {}
    /\ programs = {}
    /\ cudaRegistered = {}
    /\ atexitHooks = <<>>
    /\ hookRan = FALSE
    /\ setupRan = {}
    /\ initLog = <<>>
    /\ iteration = 0
    /\ title = <<"CIS 565 Path Tracer">>
    /\ frameLog = <<>>
    /\ mainCalls = <<>>

----------------------------------------------------------------------------
(* init() *)

\* if (!glfwInit()) exit(EXIT_FAILURE);
glfwInit ==
    /\ pc = "glfwInit"
    /\ initLog' = Append(initLog, "glfwInit")
    /\ \E ok \in BOOLEAN :
         IF ok
         THEN /\ glfwState' = "init"
              /\ pc' = "glfwCreateWindow"
              /\ UNCHANGED initResult
         ELSE /\ glfwState' = "failed"
              /\ pc' = "exit"
              /\ initResult' = "exit"
    /\ UNCHANGED <<window, closeFlag, ctxCurrent, glew, pbo, displayImage,
                   passthroughProgram, indexBuffer, bindings, buffers, textures,
                   programs, cudaRegistered, atexitHooks, hookRan, setupRan,
                   iteration, title, frameLog, mainCalls>>

\* window = glfwCreateWindow(...); if (!window) { glfwTerminate(); return false; }
\* glfwMakeContextCurrent(window); glfwSetKeyCallback(window, keyCallback);
glfwCreateWindow ==
    /\ pc = "glfwCreateWindow"
    /\ \E ok \in BOOLEAN :
         IF ok
         THEN /\ window' = "open"
              /\ ctxCurrent' = TRUE
              /\ initLog' = Append(initLog, "glfwCreateWindow")
              /\ pc' = "glewInit"
              /\ UNCHANGED <<glfwState, initResult>>
         ELSE /\ window' = "null"
              /\ initLog' = initLog \o <<"glfwCreateWindow", "glfwTerminate">>
              /\ glfwState' = "terminated"
              /\ initResult' = "false"
              /\ pc' = "glfwWindowShouldClose"
              /\ UNCHANGED ctxCurrent
    /\ UNCHANGED <<closeFlag, glew, pbo, displayImage, passthroughProgram,
                   indexBuffer, bindings, buffers, textures, programs,
                   cudaRegistered, atexitHooks, hookRan, setupRan, iteration,
                   title, frameLog, mainCalls>>

\* The missing early return: a failed glewInit falls through to the setup.
glewInitNoReturn ==
    /\ pc = "glewInit"
    /\ initLog' = Append(initLog, "glewInit")
    /\ \E ok \in BOOLEAN : glew' = IF ok THEN "ok" ELSE "failed"
    /\ pc' = "initVAO"
    /\ UNCHANGED <<initResult, glfwState, window, closeFlag, ctxCurrent, pbo,
                   displayImage, passthroughProgram, indexBuffer, bindings,
                   buffers, textures, programs, cudaRegistered, atexitHooks,
                   hookRan, setupRan, iteration, title, frameLog, mainCalls>>

\* if (glewInit() != GLEW_OK) return false;
glewInit ==
    /\ pc = "glewInit"
    /\ initLog' = Append(initLog, "glewInit")
    /\ \E ok \in BOOLEAN :
         IF ok
         THEN /\ glew' = "ok"
              /\ pc' = "initVAO"
              /\ UNCHANGED initResult
         ELSE /\ glew' = "failed"
              /\ initResult' = "false"
              /\ pc' = "glfwWindowShouldClose"
    /\ UNCHANGED <<glfwState, window, closeFlag, ctxCurrent, pbo, displayImage,
                   passthroughProgram, indexBuffer, bindings, buffers, textures,
                   programs, cudaRegistered, atexitHooks, hookRan, setupRan,
                   iteration, title, frameLog, mainCalls>>

\* glGenBuffers(3, ...); two GL_ARRAY_BUFFER binds; the third buffer is left
\* bound to GL_ELEMENT_ARRAY_BUFFER.
initVAO ==
    /\ pc = "initVAO"
    /\ LET b0 == GenName(buffers)
           b1 == GenName(buffers \cup {b0})
           b2 == GenName(buffers \cup {b0, b1})
       IN /\ buffers' = buffers \cup {b0, b1, b2}
          /\ indexBuffer' = b2
          /\ bindings' = [bindings EXCEPT !.arrayBuffer = b1,
                                          !.elementArrayBuffer = b2]
    /\ setupRan' = setupRan \cup {"initVAO"}
    /\ pc' = "initTextures"
    /\ UNCHANGED <<initResult, glfwState, window, closeFlag, ctxCurrent, glew,
                   pbo, displayImage, passthroughProgram, textures, programs,
                   cudaRegistered, atexitHooks, hookRan, initLog, iteration,
                   title, frameLog, mainCalls>>

\* glGenTextures(1, &displayImage); glBindTexture(GL_TEXTURE_2D, displayImage);
initTextures ==
    /\ pc = "initTextures"
    /\ LET t == GenName(textures)
       IN /\ textures' = textures \cup {t}
          /\ displayImage' = t
          /\ bindings' = [bindings EXCEPT !.texture2D[bindings.activeUnit] = t]
    /\ setupRan' = setupRan \cup {"initTextures"}
    /\ pc' = "initCuda"
    /\ UNCHANGED <<initResult, glfwState, window, closeFlag, ctxCurrent, glew,
                   pbo, passthroughProgram, indexBuffer, buffers, programs,
                   cudaRegistered, atexitHooks, hookRan, initLog, iteration,
                   title, frameLog, mainCalls>>

\* cudaGLSetGLDevice(0); atexit(cleanupCuda);
initCuda ==
    /\ pc = "initCuda"
    /\ atexitHooks' = Append(atexitHooks, "cleanupCuda")
    /\ setupRan' = setupRan \cup {"initCuda"}
    /\ pc' = "initPBO"
    /\ UNCHANGED <<initResult, glfwState, window, closeFlag, ctxCurrent, glew,
                   pbo, displayImage, passthroughProgram, indexBuffer, bindings,
                   buffers, textures, programs, cudaRegistered, hookRan,
                   initLog, iteration, title, frameLog, mainCalls>>

\* glGenBuffers(1, &pbo); glBindBuffer(GL_PIXEL_UNPACK_BUFFER, pbo);
\* glBufferData(...); cudaGLRegisterBufferObject(pbo);
initPBO ==
    /\ pc = "initPBO"
    /\ LET b == GenName(buffers)
       IN /\ buffers' = buffers \cup {b}
          /\ pbo' = b
          /\ bindings' = [bindings EXCEPT !.pixelUnpackBuffer = b]
          /\ cudaRegistered' = cudaRegistered \cup {b}
    /\ setupRan' = setupRan \cup {"initPBO"}
    /\ pc' = "initShader"
    /\ UNCHANGED <<initResult, glfwState, window, closeFlag, ctxCurrent, glew,
                   displayImage, passthroughProgram, indexBuffer, textures,
                   programs, atexitHooks, hookRan, initLog, iteration, title,
                   frameLog, mainCalls>>

\* GLuint passthroughProgram = initShader();  (glUseProgram is commented out
\* inside initShader; the program is created and returned.)
initShader ==
    /\ pc = "initShader"
    /\ LET p == GenName(programs)
       IN /\ programs' = programs \cup {p}
          /\ passthroughProgram' = p
    /\ setupRan' = setupRan \cup {"initShader"}
    /\ pc' = "glUseProgram"
    /\ UNCHANGED <<initResult, glfwState, window, closeFlag, ctxCurrent, glew,
                   pbo, displayImage, indexBuffer, bindings, buffers, textures,
                   cudaRegistered, atexitHooks, hookRan, initLog, iteration,
                   title, frameLog, mainCalls>>

\* glUseProgram(passthroughProgram); glActiveTexture(GL_TEXTURE0); return true;
glUseProgram ==
    /\ pc = "glUseProgram"
    /\ bindings' = [bindings EXCEPT !.program = passthroughProgram,
                                    !.activeUnit = 0]
    /\ initResult' = "true"
    /\ pc' = "glfwWindowShouldClose"
    /\ UNCHANGED <<glfwState, window, closeFlag, ctxCurrent, glew, pbo,
                   displayImage, passthroughProgram, indexBuffer, buffers,
                   textures, programs, cudaRegistered, atexitHooks, hookRan,
                   setupRan, initLog, iteration, title, frameLog, mainCalls>>

----------------------------------------------------------------------------
(* mainLoop(): the frame loop.  init()'s return value is discarded at the  *)
(* call site, so the loop is entered after every return of init.           *)

\* while (!glfwWindowShouldClose(window)).  On a null window the call is
\* undefined; when it returns at all it reports "not closing".
glfwWindowShouldClose ==
    /\ pc = "glfwWindowShouldClose"
    /\ IF window = "open" /\ closeFlag
       THEN /\ pc' = "glfwDestroyWindow"
            /\ UNCHANGED frameLog
       ELSE /\ pc' = "glfwPollEvents"
            /\ frameLog' = <<>>
    /\ UNCHANGED <<initResult, glfwState, window, closeFlag, ctxCurrent, glew,
                   pbo, displayImage, passthroughProgram, indexBuffer, bindings,
                   buffers, textures, programs, cudaRegistered, atexitHooks,
                   hookRan, setupRan, initLog, iteration, title, mainCalls>>

\* glfwPollEvents(): a close request (window manager or keyCallback) may be
\* delivered to an open window.
glfwPollEvents ==
    /\ pc = "glfwPollEvents"
    /\ \E req \in BOOLEAN :
         closeFlag' = IF window = "open" /\ glfwState = "init" /\ req
                      THEN TRUE ELSE closeFlag
    /\ frameLog' = Append(frameLog, "glfwPollEvents")
    /\ pc' = "runCuda"
    /\ UNCHANGED <<initResult, glfwState, window, ctxCurrent, glew, pbo,
                   displayImage, passthroughProgram, indexBuffer, bindings,
                   buffers, textures, programs, cudaRegistered, atexitHooks,
                   hookRan, setupRan, initLog, iteration, title, mainCalls>>

\* runCuda(): external render step; it may advance the iteration counter.
runCuda ==
    /\ pc = "runCuda"
    /\ \E adv \in BOOLEAN :
         iteration' = IF adv /\ iteration < MaxIter THEN iteration + 1
                      ELSE iteration
    /\ frameLog' = Append(frameLog, "runCuda")
    /\ pc' = "glfwSetWindowTitle"
    /\ UNCHANGED <<initResult, glfwState, window, closeFlag, ctxCurrent, glew,
                   pbo, displayImage, passthroughProgram, indexBuffer, bindings,
                   buffers, textures, programs, cudaRegistered, atexitHooks,
                   hookRan, setupRan, initLog, title, mainCalls>>

\* The title built from the local `iter` (always 0) instead of `iteration`.
glfwSetWindowTitleIter ==
    /\ pc = "glfwSetWindowTitle"
    /\ title' = Title(0)
    /\ frameLog' = Append(frameLog, "glfwSetWindowTitle")
    /\ pc' = "glBindBuffer"
    /\ UNCHANGED <<initResult, glfwState, window, closeFlag, ctxCurrent, glew,
                   pbo, displayImage, passthroughProgram, indexBuffer, bindings,
                   buffers, textures, programs, cudaRegistered, atexitHooks,
                   hookRan, setupRan, initLog, iteration, mainCalls>>

\* string title = "CIS565 Path Tracer | " + convertIntToString(iteration)
\*                + " Iterations"; glfwSetWindowTitle(window, title.c_str());
glfwSetWindowTitle ==
    /\ pc = "glfwSetWindowTitle"
    /\ title' = Title(iteration)
    /\ frameLog' = Append(frameLog, "glfwSetWindowTitle")
    /\ pc' = "glBindBuffer"
    /\ UNCHANGED <<initResult, glfwState, window, closeFlag, ctxCurrent, glew,
                   pbo, displayImage, passthroughProgram, indexBuffer, bindings,
                   buffers, textures, programs, cudaRegistered, atexitHooks,
                   hookRan, setupRan, initLog, iteration, mainCalls>>

\* glBindBuffer(GL_PIXEL_UNPACK_BUFFER, pbo);
glBindBuffer ==
    /\ pc = "glBindBuffer"
    /\ bindings' = [bindings EXCEPT !.pixelUnpackBuffer = pbo]
    /\ frameLog' = Append(frameLog, "glBindBuffer")
    /\ pc' = "glBindTexture"
    /\ UNCHANGED <<initResult, glfwState, window, closeFlag, ctxCurrent, glew,
                   pbo, displayImage, passthroughProgram, indexBuffer, buffers,
                   textures, programs, cudaRegistered, atexitHooks, hookRan,
                   setupRan, initLog, iteration, title, mainCalls>>

\* glBindTexture(GL_TEXTURE_2D, displayImage);
glBindTexture ==
    /\ pc = "glBindTexture"
    /\ bindings' = [bindings EXCEPT !.texture2D[bindings.activeUnit] = displayImage]
    /\ frameLog' = Append(frameLog, "glBindTexture")
    /\ pc' = "glTexSubImage2D"
    /\ UNCHANGED <<initResult, glfwState, window, closeFlag, ctxCurrent, glew,
                   pbo, displayImage, passthroughProgram, indexBuffer, buffers,
                   textures, programs, cudaRegistered, atexitHooks, hookRan,
                   setupRan, initLog, iteration, title, mainCalls>>

\* The upload followed directly by the swap: glClear and the draw left out.
glTexSubImage2DNoDraw ==
    /\ pc = "glTexSubImage2D"
    /\ frameLog' = Append(frameLog, "glTexSubImage2D")
    /\ pc' = "glfwSwapBuffers"
    /\ UNCHANGED <<initResult, glfwState, window, closeFlag, ctxCurrent, glew,
                   pbo, displayImage, passthroughProgram, indexBuffer, bindings,
                   buffers, textures, programs, cudaRegistered, atexitHooks,
                   hookRan, setupRan, initLog, iteration, title, mainCalls>>

\* glTexSubImage2D(GL_TEXTURE_2D, 0, 0, 0, width, height, GL_RGBA,
\*                 GL_UNSIGNED_BYTE, NULL);  source: the bound unpack buffer.
glTexSubImage2D ==
    /\ pc = "glTexSubImage2D"
    /\ frameLog' = Append(frameLog, "glTexSubImage2D")
    /\ pc' = "glClear"
    /\ UNCHANGED <<initResult, glfwState, window, closeFlag, ctxCurrent, glew,
                   pbo, displayImage, passthroughProgram, indexBuffer, bindings,
                   buffers, textures, programs, cudaRegistered, atexitHooks,
                   hookRan, setupRan, initLog, iteration, title, mainCalls>>

\* glClear(GL_COLOR_BUFFER_BIT);
glClear ==
    /\ pc = "glClear"
    /\ frameLog' = Append(frameLog, "glClear")
    /\ pc' = "glDrawElements"
    /\ UNCHANGED <<initResult, glfwState, window, closeFlag, ctxCurrent, glew,
                   pbo, displayImage, passthroughProgram, indexBuffer, bindings,
                   buffers, textures, programs, cudaRegistered, atexitHooks,
                   hookRan, setupRan, initLog, iteration, title, mainCalls>>

\* glDrawElements(GL_TRIANGLES, 6, GL_UNSIGNED_SHORT, 0);
glDrawElements ==
    /\ pc = "glDrawElements"
    /\ frameLog' = Append(frameLog, "glDrawElements")
    /\ pc' = "glfwSwapBuffers"
    /\ UNCHANGED <<initResult, glfwState, window, closeFlag, ctxCurrent, glew,
                   pbo, displayImage, passthroughProgram, indexBuffer, bindings,
                   buffers, textures, programs, cudaRegistered, atexitHooks,
                   hookRan, setupRan, initLog, iteration, title, mainCalls>>

\* glfwSwapBuffers(window); then back to the loop condition.
glfwSwapBuffers ==
    /\ pc = "glfwSwapBuffers"
    /\ frameLog' = Append(frameLog, "glfwSwapBuffers")
    /\ pc' = "glfwWindowShouldClose"
    /\ UNCHANGED <<initResult, glfwState, window, closeFlag, ctxCurrent, glew,
                   pbo, displayImage, passthroughProgram, indexBuffer, bindings,
                   buffers, textures, programs, cudaRegistered, atexitHooks,
                   hookRan, setupRan, initLog, iteration, title, mainCalls>>

----------------------------------------------------------------------------
(* mainLoop(): teardown after the loop *)

\* glfwDestroyWindow(window): the window and its GL context are gone.
glfwDestroyWindow ==
    /\ pc = "glfwDestroyWindow"
    /\ window' = "destroyed"
    /\ ctxCurrent' = FALSE
    /\ mainCalls' = Append(mainCalls, "glfwDestroyWindow")
    /\ pc' = "glfwTerminate"
    /\ UNCHANGED <<initResult, glfwState, closeFlag, glew, pbo, displayImage,
                   passthroughProgram, indexBuffer, bindings, buffers, textures,
                   programs, cudaRegistered, atexitHooks, hookRan, setupRan,
                   initLog, iteration, title, frameLog>>

\* glfwTerminate(); mainLoop then returns.
glfwTerminate ==
    /\ pc = "glfwTerminate"
    /\ glfwState' = "terminated"
    /\ mainCalls' = Append(mainCalls, "glfwTerminate")
    /\ pc' = "mainLoopReturned"
    /\ UNCHANGED <<initResult, window, closeFlag, ctxCurrent, glew, pbo,
                   displayImage, passthroughProgram, indexBuffer, bindings,
                   buffers, textures, programs, cudaRegistered, atexitHooks,
                   hookRan, setupRan, initLog, iteration, title, frameLog>>

\* The caller of mainLoop ends the process normally once mainLoop returns.
mainReturn ==
    /\ pc = "mainLoopReturned"
    /\ pc' = "exit"
    /\ UNCHANGED <<initResult, glfwState, window, closeFlag, ctxCurrent, glew,
                   pbo, displayImage, passthroughProgram, indexBuffer, bindings,
                   buffers, textures, programs, cudaRegistered, atexitHooks,
                   hookRan, setupRan, initLog, iteration, title, frameLog,
                   mainCalls>>

----------------------------------------------------------------------------
(* Process exit and the atexit hook *)

\* exit(): the functions registered with atexit run (here at most
\* cleanupCuda, registered by initCuda).
exit ==
    /\ pc = "exit"
    /\ pc' = IF atexitHooks # <<>> THEN "cleanupCuda" ELSE "exited"
    /\ UNCHANGED <<initResult, glfwState, window, closeFlag, ctxCurrent, glew,
                   pbo, displayImage, passthroughProgram, indexBuffer, bindings,
                   buffers, textures, programs, cudaRegistered, atexitHooks,
                   hookRan, setupRan, initLog, iteration, title, frameLog,
                   mainCalls>>

\* cleanupCuda(): if (pbo) deletePBO(&pbo);
cleanupCuda ==
    /\ pc = "cleanupCuda"
    /\ hookRan' = TRUE
    /\ pc' = IF pbo # 0 THEN "deletePBO" ELSE "cleanupTexture"
    /\ UNCHANGED <<initResult, glfwState, window, closeFlag, ctxCurrent, glew,
                   pbo, displayImage, passthroughProgram, indexBuffer, bindings,
                   buffers, textures, programs, cudaRegistered, atexitHooks,
                   setupRan, initLog, iteration, title, frameLog, mainCalls>>

\* deletePBO(&pbo): cudaGLUnregisterBufferObject(*pbo);
\* glBindBuffer(GL_ARRAY_BUFFER, *pbo); glDeleteBuffers(1, pbo); *pbo = 0.
\* The GL calls take effect only on a current context.
deletePBO ==
    /\ pc = "deletePBO"
    /\ cudaRegistered' = cudaRegistered \ {pbo}
    /\ IF ctxCurrent
       THEN /\ buffers' = buffers \ {pbo}
            /\ bindings' = [bindings EXCEPT
                  !.arrayBuffer = 0,
                  !.elementArrayBuffer =
                      IF bindings.elementArrayBuffer = pbo THEN 0
                      ELSE bindings.elementArrayBuffer,
                  !.pixelUnpackBuffer =
                      IF bindings.pixelUnpackBuffer = pbo THEN 0
                      ELSE bindings.pixelUnpackBuffer]
       ELSE UNCHANGED <<buffers, bindings>>
    /\ pbo' = 0
    /\ pc' = "cleanupTexture"
    /\ UNCHANGED <<initResult, glfwState, window, closeFlag, ctxCurrent, glew,
                   displayImage, passthroughProgram, indexBuffer, textures,
                   programs, atexitHooks, hookRan, setupRan, initLog, iteration,
                   title, frameLog, mainCalls>>

\* cleanupCuda(): if (displayImage) deleteTexture(&displayImage);
cleanupTexture ==
    /\ pc = "cleanupTexture"
    /\ pc' = IF displayImage # 0 THEN "deleteTexture" ELSE "exited"
    /\ UNCHANGED <<initResult, glfwState, window, closeFlag, ctxCurrent, glew,
                   pbo, displayImage, passthroughProgram, indexBuffer, bindings,
                   buffers, textures, programs, cudaRegistered, atexitHooks,
                   hookRan, setupRan, initLog, iteration, title, frameLog,
                   mainCalls>>

\* deleteTexture(&displayImage): glDeleteTextures(1, tex); *tex = 0.
deleteTexture ==
    /\ pc = "deleteTexture"
    /\ IF ctxCurrent
       THEN /\ textures' = textures \ {displayImage}
            /\ bindings' = [bindings EXCEPT !.texture2D =
                  [u \in 0..1 |-> IF bindings.texture2D[u] = displayImage
                                  THEN 0 ELSE bindings.texture2D[u]]]
       ELSE UNCHANGED <<textures, bindings>>
    /\ displayImage' = 0
    /\ pc' = "exited"
    /\ UNCHANGED <<initResult, glfwState, window, closeFlag, ctxCurrent, glew,
                   pbo, passthroughProgram, indexBuffer, buffers, programs,
                   cudaRegistered, atexitHooks, hookRan, setupRan, initLog,
                   iteration, title, frameLog, mainCalls>>

\* A call with undefined behaviour may end the process abnormally instead of
\* returning; no atexit hook runs then.
Crash ==
    /\ UBAt(pc)
    /\ pc' = "crashed"
    /\ UNCHANGED <<initResult, glfwState, window, closeFlag, ctxCurrent, glew,
                   pbo, displayImage, passthroughProgram, indexBuffer, bindings,
                   buffers, textures, programs, cudaRegistered, atexitHooks,
                   hookRan, setupRan, initLog, iteration, title, frameLog,
                   mainCalls>>

----------------------------------------------------------------------------
Next ==
    \/ glfwInit \/ glfwCreateWindow \/ glewInit
    \/ initVAO \/ initTextures \/ initCuda \/ initPBO \/ initShader
    \/ glUseProgram
    \/ glfwWindowShouldClose \/ glfwPollEvents \/ runCuda
    \/ glfwSetWindowTitle \/ glBindBuffer \/ glBindTexture
    \/ glTexSubImage2D \/ glClear \/ glDrawElements \/ glfwSwapBuffers
    \/ glfwDestroyWindow \/ glfwTerminate \/ mainReturn
    \/ exit \/ cleanupCuda \/ deletePBO \/ cleanupTexture \/ deleteTexture
    \/ Crash

Spec == Init /\ [][Next]_vars

\* The thread keeps running while it has a step to take.
FairSpec == Init /\ [][Next]_vars /\ WF_vars(Next)

TypeOK ==
    /\ initResult \in {"none", "true", "false", "exit"}
    /\ glfwState \in {"uninit", "init", "failed", "terminated"}
    /\ window \in {"null", "open", "destroyed"}
    /\ closeFlag \in BOOLEAN /\ ctxCurrent \in BOOLEAN /\ hookRan \in BOOLEAN
    /\ glew \in {"unloaded", "ok", "failed"}
    /\ iteration \in 0..MaxIter
    /\ setupRan \subseteq SetupSteps

----------------------------------------------------------------------------
(* Properties *)

IsPrefix(s, t) == Len(s) <= Len(t) /\ SubSeq(t, 1, Len(s)) = s

\* The five steps of a frame, in the order of the loop body.
FrameOrder == <<"glfwPollEvents", "runCuda", "glTexSubImage2D",
                "glDrawElements", "glfwSwapBuffers">>

IsFrameStep(c) == \E i \in 1..Len(FrameOrder) : FrameOrder[i] = c

\* The frame steps taken so far in the current frame.
FrameSteps == SelectSeq(frameLog, IsFrameStep)

\* How many of the five frame steps lie before position p of the loop body.
StepsBefore(p) ==
    CASE p = "glfwPollEvents" -> 0
      [] p = "runCuda" -> 1
      [] p \in {"glfwSetWindowTitle", "glBindBuffer", "glBindTexture",
                "glTexSubImage2D"} -> 2
      [] p \in {"glClear", "glDrawElements"} -> 3
      [] p = "glfwSwapBuffers" -> 4
      [] OTHER -> 5

IsTitleCall(c) == c = "glfwSetWindowTitle"

IsCreateWindowCall(c) == c = "glfwCreateWindow"

IsGlewInitCall(c) == c = "glewInit"

\* Index of the first occurrence of call c in log s (0 when absent).
IndexOf(s, c) ==
    IF \E i \in 1..Len(s) : s[i] = c
    THEN CHOOSE i \in 1..Len(s) : s[i] = c /\ \A j \in 1..(i - 1) : s[j] # c
    ELSE 0

C1_StepOrder ==
    /\ IsPrefix(FrameSteps, FrameOrder)
    /\ pc \in LoopPcs \ {"glfwWindowShouldClose"}
          => Len(FrameSteps) = StepsBefore(pc)
    /\ pc = "glfwWindowShouldClose"
          => frameLog = <<>> \/ FrameSteps = FrameOrder
    /\ pc = "glTexSubImage2D"
          => /\ bindings.pixelUnpackBuffer = pbo
             /\ bindings.texture2D[bindings.activeUnit] = displayImage

C1_LoopExit ==
    /\ pc \in LoopPcs /\ pc' \in {"glfwDestroyWindow", "glfwTerminate",
                                  "mainLoopReturned", "exit"}
          => pc = "glfwWindowShouldClose" /\ closeFlag /\ pc' = "glfwDestroyWindow"
    /\ pc = "glfwWindowShouldClose" /\ ~closeFlag /\ pc' \in LoopPcs
          => pc' = "glfwPollEvents"
    /\ pc = "glfwSwapBuffers" /\ pc' \in LoopPcs
          => pc' = "glfwWindowShouldClose"

\* C1: in every iteration of the frame loop the calls glfwPollEvents,
\* runCuda, glTexSubImage2D (with pbo bound as unpack buffer and displayImage
\* bound), glDrawElements, glfwSwapBuffers happen in this order, each once
\* and none skipped; after the swap the loop condition is evaluated again,
\* and control passes to the teardown only from the loop condition with the
\* close flag set.
C1_FrameOrder == []C1_StepOrder /\ [][C1_LoopExit]_vars

\* A successful run has finished a whole frame and sees the close flag at
\* the top of the next iteration.
C1_Witness ==
    /\ pc = "glfwWindowShouldClose" /\ initResult = "true"
    /\ FrameSteps = FrameOrder /\ closeFlag

\* C2: a failed window creation or a failed glewInit makes init return false
\* at once (glfwTerminate first in the window case), each is tried once, and
\* none of initVAO, initTextures, initCuda, initPBO, initShader has run: no
\* texture, PBO, program or exit hook exists; a failed glfwInit ends the
\* process; init returns true only after glfwInit, window creation and
\* glewInit succeeded and all five setup steps ran.
C2_InitOutcome ==
    /\ Len(SelectSeq(initLog, IsCreateWindowCall)) <= 1
    /\ Len(SelectSeq(initLog, IsGlewInitCall)) <= 1
    /\ glew = "failed" => initResult = "false"
    /\ IndexOf(initLog, "glfwTerminate") # 0
          => initResult = "false" /\ window = "null"
    /\ initResult = "false"
          => /\ window = "null" \/ glew = "failed"
             /\ setupRan = {}
             /\ pbo = 0 /\ displayImage = 0 /\ passthroughProgram = 0
             /\ indexBuffer = 0
             /\ buffers = {} /\ textures = {} /\ programs = {}
             /\ cudaRegistered = {} /\ atexitHooks = <<>>
             /\ bindings.program = 0
    /\ initResult = "exit"
          => /\ glfwState = "failed" /\ setupRan = {} /\ atexitHooks = <<>>
             /\ pc \in {"exit", "exited"}
    /\ initResult = "true"
          => /\ initLog = <<"glfwInit", "glfwCreateWindow", "glewInit">>
             /\ window # "null" /\ glew = "ok"
             /\ setupRan = SetupSteps
             /\ atexitHooks = <<"cleanupCuda">>
             /\ passthroughProgram # 0
    /\ setupRan # {} => glew = "ok" /\ window # "null"

\* glewInit failed, init returned false and the caller has moved on.
C2_Witness ==
    /\ initResult = "false" /\ glew = "failed" /\ window = "open"
    /\ pc = "glfwPollEvents"

\* C3: once the exit hook cleanupCuda has run and the process has exited,
\* the display texture, the PBO and the shader program created by init have
\* all been released: no handle names a live object and no texture or
\* program object is left.
C3_AllReleasedByHook ==
    (pc = "exited" /\ hookRan)
        => /\ pbo = 0 \/ pbo \notin buffers
           /\ displayImage = 0 \/ displayImage \notin textures
           /\ passthroughProgram = 0 \/ passthroughProgram \notin programs
           /\ textures = {} /\ programs = {} /\ cudaRegistered = {}

\* C4: in every frame glfwSetWindowTitle is called exactly once, after that
\* frame's runCuda and before its swap, with "CIS565 Path Tracer | <n>
\* Iterations" for n the value of iteration at the call; the title at the
\* swap is the one of the current value of iteration.
C4_TitlePerFrame ==
    LET n == Len(SelectSeq(frameLog, IsTitleCall))
    IN /\ pc \in {"glfwPollEvents", "runCuda", "glfwSetWindowTitle"} => n = 0
       /\ pc \in {"glBindBuffer", "glBindTexture", "glTexSubImage2D", "glClear",
                  "glDrawElements", "glfwSwapBuffers"}
             => /\ n = 1
                /\ title = Title(iteration)
                /\ IndexOf(frameLog, "runCuda") # 0
                /\ IndexOf(frameLog, "runCuda")
                      < IndexOf(frameLog, "glfwSetWindowTitle")
                /\ IndexOf(frameLog, "glfwSwapBuffers") = 0
       /\ (pc = "glfwWindowShouldClose" /\ frameLog # <<>>)
             => /\ n = 1
                /\ title = Title(iteration)
                /\ IndexOf(frameLog, "glfwSetWindowTitle")
                      < IndexOf(frameLog, "glfwSwapBuffers")
       /\ (pc = "glfwSwapBuffers" /\ iteration = 10)
             => title = <<"CIS565 Path Tracer | ", "1", "0", " Iterations">>

\* A frame about to be presented after the counter reached a two-digit value.
C4_Witness ==
    /\ pc = "glfwSwapBuffers" /\ iteration = 10
    /\ title = Title(10) /\ initResult = "true"

C5_Safety ==
    /\ pc \in LoopPcs /\ pc' \notin LoopPcs /\ pc' # "crashed"
          => pc = "glfwWindowShouldClose" /\ closeFlag /\ pc' = "glfwDestroyWindow"
    /\ pc \in {"glfwDestroyWindow", "glfwTerminate", "mainLoopReturned"}
          => pc' \notin LoopPcs
    /\ IsPrefix(mainCalls', <<"glfwDestroyWindow", "glfwTerminate">>)

\* C5: the loop is left only from the loop condition with the close flag
\* set; and if the close flag is eventually set and stays set, mainLoop
\* eventually has called glfwDestroyWindow and then glfwTerminate, once
\* each, after which no frame step happens.
C5_CloseEndsLoop ==
    /\ [][C5_Safety]_vars
    /\ (<>[]closeFlag) => <>(mainCalls = <<"glfwDestroyWindow", "glfwTerminate">>)

\* C6: every runCuda call and every glTexSubImage2D upload happens while pbo
\* names a created buffer that is registered with CUDA.
C6_PboRegistered ==
    pc \in {"runCuda", "glTexSubImage2D"}
        => pbo # 0 /\ pbo \in buffers /\ pbo \in cudaRegistered

\* C7: at every glDrawElements call the program returned by initShader is in
\* use, displayImage is bound to GL_TEXTURE_2D on unit 0 and the index
\* buffer of initVAO is bound to GL_ELEMENT_ARRAY_BUFFER.
C7_DrawState ==
    pc = "glDrawElements"
        => /\ passthroughProgram # 0
           /\ bindings.program = passthroughProgram
           /\ displayImage # 0
           /\ bindings.activeUnit = 0
           /\ bindings.texture2D[0] = displayImage
           /\ indexBuffer # 0
           /\ bindings.elementArrayBuffer = indexBuffer

\* C8: the frame loop runs only after init returned true: no loop call is
\* made after init returned false, and none on a null window or after
\* glfwTerminate.
C8_LoopOnlyAfterInit ==
    pc \in LoopPcs
        => initResult = "true" /\ window = "open" /\ glfwState = "init"

\* C9: cleanupCuda issues its CUDA and OpenGL calls only while the window's
\* GL context exists, never after glfwDestroyWindow or glfwTerminate.
C9_HookHasContext ==
    pc \in HookCallPcs
        => ctxCurrent /\ window # "destroyed" /\ glfwState # "terminated"

====
